---- MODULE Spec2Model ----
(***************************************************************************)
(* Model of scripts/import-contacts.py: the contact import pipeline        *)
(* (format detection, per-format parsers, field normalizers, exporter and  *)
(* the main entry point).                                                  *)
(*                                                                         *)
(* Representation.  A Python str is a sequence of one-token strings        *)
(* (<<"A","l">>, <<"5","5","5">>); a token is a character, or a whole word *)
(* where the code never looks inside it (column names, month names).       *)
(* A Python value is a tagged record [t |-> type, v |-> payload].  An      *)
(* operation that can raise returns [ok |-> TRUE, val |-> v] or            *)
(* [ok |-> FALSE, err |-> exception name].                                 *)
(***************************************************************************)
EXTENDS Integers, Sequences, FiniteSets, TLC

VARIABLES
    pc,           \* position of the run: which step of main (or of a harness) is next
    args,         \* the command line and the input file it names
    format_type,  \* result of detect_format
    contacts,     \* result of import_file
    output,       \* the output path: NoFile or the chunks written to it
    exit_code,    \* process exit status, -1 while running
    error,        \* what the run printed as its error, "" for none
    reread,       \* result of _import_json on the written output file
    phone_input,  \* input of _normalize_phone
    normalized,   \* _normalize_phone(phone_input)
    renormalized  \* _normalize_phone(normalized)

vars == <<pc, args, format_type, contacts, output, exit_code, error, reread,
          phone_input, normalized, renormalized>>

----------------------------------------------------------------------------
(* Bounds of the model *)

\* longest run of digits in a phone number given to _normalize_phone
MaxDigits == 11

\* most data rows of a CSV file, components of a vCard file, items of a JSON list
MaxRows == 2

\* most tel entries of one vCard component
MaxPhones == 2

\* most columns of a header line given to detect_format
MaxCols == 4

----------------------------------------------------------------------------
(* Python strings *)

Digits == {"0", "1", "2", "3", "4", "5", "6", "7", "8", "9"}

Whitespace == {" "}

RECURSIVE Rep(_, _)
\* s * n
Rep(s, n) == IF n = 0 THEN <<>> ELSE s \o Rep(s, n - 1)

RECURSIVE LStrip(_)
LStrip(s) ==
    IF s # <<>> /\ Head(s) \in Whitespace THEN LStrip(Tail(s)) ELSE s

RECURSIVE RStrip(_)
RStrip(s) ==
    IF s # <<>> /\ s[Len(s)] \in Whitespace
    THEN RStrip(SubSeq(s, 1, Len(s) - 1))
    ELSE s

\* str.strip()
Strip(s) == RStrip(LStrip(s))

\* str.startswith(p)
StartsWith(s, p) == Len(s) >= Len(p) /\ SubSeq(s, 1, Len(p)) = p

\* sub in s
Contains(s, sub) ==
    \E i \in 0..(Len(s) - Len(sub)) : SubSeq(s, i + 1, i + Len(sub)) = sub

\* s.count(c) for a one-token c
Count(s, c) == Cardinality({i \in 1..Len(s) : s[i] = c})

----------------------------------------------------------------------------
(* Field normalizers *)

\* re.sub(r'[^\d+]', '', phone): the class [^\d+] is every character that is
\* neither a digit nor '+', so every '+' is kept, wherever it stands
StripNonPhoneChars(s) == SelectSeq(s, LAMBDA c : c \in Digits \cup {"+"})

\* a slip that prepends the country code without the '+'
NormalizePhoneNoPlus(p) ==
    IF p = <<>> THEN <<>>
    ELSE LET n == StripNonPhoneChars(p) IN
         IF n # <<>> /\ ~StartsWith(n, <<"+">>)
         THEN IF StartsWith(n, <<"1">>) /\ Len(n) = 11 THEN <<"+">> \o n
              ELSE IF Len(n) = 10 THEN <<"1">> \o n
              ELSE n
         ELSE n

\* a slip that takes every 11-character number for a US number
NormalizePhoneAnyEleven(p) ==
    IF p = <<>> THEN <<>>
    ELSE LET n == StripNonPhoneChars(p) IN
         IF n # <<>> /\ ~StartsWith(n, <<"+">>)
         THEN IF Len(n) = 11 THEN <<"+">> \o n
              ELSE IF Len(n) = 10 THEN <<"+", "1">> \o n
              ELSE n
         ELSE n

\* ContactImporter._normalize_phone
NormalizePhone(p) ==
    IF p = <<>> THEN <<>>
    ELSE LET n == StripNonPhoneChars(p) IN
         IF n # <<>> /\ ~StartsWith(n, <<"+">>)
         THEN IF StartsWith(n, <<"1">>) /\ Len(n) = 11 THEN <<"+">> \o n
              ELSE IF Len(n) = 10 THEN <<"+", "1">> \o n
              ELSE n
         ELSE n

----------------------------------------------------------------------------
(* Python values *)

PyNone == [t |-> "None", v |-> <<>>]
PyStr(s) == [t |-> "str", v |-> s]
PyBool(b) == [t |-> "bool", v |-> b]
PyInt(n) == [t |-> "int", v |-> n]
PyList(xs) == [t |-> "list", v |-> xs]
\* a dict is its items in insertion order, each <<key, value>>, keys being strs
PyDict(items) == [t |-> "dict", v |-> items]

\* bool(x): the test of `if x` and `not x`
Truthy(x) ==
    CASE x.t = "None" -> FALSE
      [] x.t = "bool" -> x.v
      [] x.t = "int" -> x.v # 0
      [] OTHER -> x.v # <<>>

\* key in d
HasKey(d, key) == \E i \in 1..Len(d.v) : d.v[i][1] = key

\* d[key], for a key that is in d
Item(d, key) == d.v[CHOOSE i \in 1..Len(d.v) : d.v[i][1] = key][2]

\* d.get(key, default)
Get(d, key, default) == IF HasKey(d, key) THEN Item(d, key) ELSE default

\* d[key] = value on the item sequence: a key already present keeps its place
SetItem(items, key, value) ==
    IF \E i \in 1..Len(items) : items[i][1] = key
    THEN [i \in 1..Len(items) |->
             IF items[i][1] = key THEN <<key, value>> ELSE items[i]]
    ELSE Append(items, <<key, value>>)

\* an operation's outcome: a returned value, or a raised exception
Return(x) == [ok |-> TRUE, val |-> x]
Raise(e) == [ok |-> FALSE, err |-> e]

----------------------------------------------------------------------------
(* JSON text.  A file's text is a sequence of tokens: characters, and the    *)
(* literal names as one token each.                                          *)

Quote == "\""
Backslash == "\\"
Newline == "\n"
\* a lone surrogate code point in a str: json.load builds it from the
\* escape \ud800, and no UTF-8 file can hold it
Surrogate == "<U+D800>"
\* the text after the backslash of the escape \ud800
SurrogateEscape == "ud800"

JsonSpace == {" ", Newline}

DigitOf(n) == CHOOSE d \in Digits : d = ToString(n)
ValueOf(d) == CHOOSE n \in 0..9 : ToString(n) = d

RECURSIVE IntText(_)
\* str(n) for n >= 0
IntText(n) == IF n < 10 THEN <<DigitOf(n)>> ELSE IntText(n \div 10) \o <<DigitOf(n % 10)>>

RECURSIVE EscapeText(_)
\* json.encoder.py_encode_basestring: with ensure_ascii=False only the quote,
\* the backslash and control characters are escaped
EscapeText(s) ==
    IF s = <<>> THEN <<>>
    ELSE (CASE Head(s) = Quote -> <<Backslash, Quote>>
            [] Head(s) = Backslash -> <<Backslash, Backslash>>
            [] Head(s) = Newline -> <<Backslash, "n">>
            [] OTHER -> <<Head(s)>>) \o EscapeText(Tail(s))

EncodeStr(s) == <<Quote>> \o EscapeText(s) \o <<Quote>>

\* '\n' + ' ' * (indent * level), indent = 2
NewlineIndent(level) == <<Newline>> \o Rep(<<" ">>, 2 * level)

IsScalar(x) == x.t \in {"None", "bool", "int", "str"}

EncodeScalar(x) ==
    CASE x.t = "None" -> <<"null">>
      [] x.t = "bool" -> IF x.v THEN <<"true">> ELSE <<"false">>
      [] x.t = "int" -> IntText(x.v)
      [] x.t = "str" -> EncodeStr(x.v)

RECURSIVE IterEncode(_, _)
RECURSIVE IterEncodeList(_, _, _)
RECURSIVE IterEncodeDict(_, _, _)

\* json.encoder._make_iterencode with indent=2: the chunks json.dump hands
\* to fp.write one by one
IterEncode(x, level) ==
    CASE IsScalar(x) -> <<EncodeScalar(x)>>
      [] x.t = "list" ->
            IF x.v = <<>> THEN << <<"[", "]">> >>
            ELSE IterEncodeList(x.v, level + 1, <<"[">> \o NewlineIndent(level + 1))
                 \o <<NewlineIndent(level)>> \o << <<"]">> >>
      [] x.t = "dict" ->
            IF x.v = <<>> THEN << <<"{", "}">> >>
            ELSE << <<"{">> >> \o <<NewlineIndent(level + 1)>>
                 \o IterEncodeDict(x.v, level + 1, TRUE)
                 \o <<NewlineIndent(level)>> \o << <<"}">> >>

\* the items of a list; buf is the text pending before the next item
IterEncodeList(xs, level, buf) ==
    IF xs = <<>> THEN <<>>
    ELSE (IF IsScalar(Head(xs))
          THEN <<buf \o EncodeScalar(Head(xs))>>
          ELSE <<buf>> \o IterEncode(Head(xs), level))
         \o IterEncodeList(Tail(xs), level, <<",">> \o NewlineIndent(level))

\* the items of a dict
IterEncodeDict(items, level, first) ==
    IF items = <<>> THEN <<>>
    ELSE (IF first THEN <<>> ELSE << <<",">> \o NewlineIndent(level) >>)
         \o <<EncodeStr(Head(items)[1])>>
         \o << <<":", " ">> >>
         \o IterEncode(Head(items)[2], level)
         \o IterEncodeDict(Tail(items), level, FALSE)

RECURSIVE Flatten(_)
\* the text made of a sequence of chunks
Flatten(chunks) ==
    IF chunks = <<>> THEN <<>>
    ELSE IF Len(chunks) = 1 THEN chunks[1]
    ELSE LET half == Len(chunks) \div 2 IN
         Flatten(SubSeq(chunks, 1, half)) \o Flatten(SubSeq(chunks, half + 1, Len(chunks)))

\* json.load: the outcome of scanning one step, and what text is left
Parsed(x, rest) == [ok |-> TRUE, val |-> x, rest |-> rest]
ParseError == [ok |-> FALSE, val |-> PyNone, rest |-> <<>>]

RECURSIVE SkipSpace(_)
SkipSpace(ts) == IF ts # <<>> /\ Head(ts) \in JsonSpace THEN SkipSpace(Tail(ts)) ELSE ts

RECURSIVE ScanString(_, _)
\* json.decoder.py_scanstring, after the opening quote; acc is the str so far
ScanString(ts, acc) ==
    IF ts = <<>> THEN ParseError
    ELSE CASE Head(ts) = Quote -> Parsed(PyStr(acc), Tail(ts))
           [] Head(ts) = Newline -> ParseError
           [] Head(ts) = Backslash ->
                IF Len(ts) < 2 THEN ParseError
                ELSE CASE ts[2] = Quote -> ScanString(Tail(Tail(ts)), Append(acc, Quote))
                       [] ts[2] = Backslash -> ScanString(Tail(Tail(ts)), Append(acc, Backslash))
                       [] ts[2] = "n" -> ScanString(Tail(Tail(ts)), Append(acc, Newline))
                       [] ts[2] = SurrogateEscape ->
                            ScanString(Tail(Tail(ts)), Append(acc, Surrogate))
                       [] OTHER -> ParseError
           [] OTHER -> ScanString(Tail(ts), Append(acc, Head(ts)))

RECURSIVE ScanNumber(_, _)
ScanNumber(ts, n) ==
    IF ts # <<>> /\ Head(ts) \in Digits
    THEN ScanNumber(Tail(ts), 10 * n + ValueOf(Head(ts)))
    ELSE Parsed(PyInt(n), ts)

RECURSIVE ScanValue(_)
RECURSIVE ScanArray(_, _)
RECURSIVE ScanObject(_, _)

\* json.scanner.py_make_scanner._scan_once
ScanValue(ts) ==
    IF ts = <<>> THEN ParseError
    ELSE CASE Head(ts) = Quote -> ScanString(Tail(ts), <<>>)
           [] Head(ts) = "{" ->
                LET r == SkipSpace(Tail(ts)) IN
                IF r # <<>> /\ Head(r) = "}" THEN Parsed(PyDict(<<>>), Tail(r))
                ELSE ScanObject(r, <<>>)
           [] Head(ts) = "[" ->
                LET r == SkipSpace(Tail(ts)) IN
                IF r # <<>> /\ Head(r) = "]" THEN Parsed(PyList(<<>>), Tail(r))
                ELSE ScanArray(r, <<>>)
           [] Head(ts) = "null" -> Parsed(PyNone, Tail(ts))
           [] Head(ts) = "true" -> Parsed(PyBool(TRUE), Tail(ts))
           [] Head(ts) = "false" -> Parsed(PyBool(FALSE), Tail(ts))
           [] Head(ts) \in Digits ->
                \* a leading zero ends the number: 01 is not JSON
                IF Head(ts) = "0" THEN Parsed(PyInt(0), Tail(ts))
                ELSE ScanNumber(ts, 0)
           [] OTHER -> ParseError

\* json.decoder.JSONArray, at the first token of an item
ScanArray(ts, acc) ==
    LET item == ScanValue(ts) IN
    IF ~item.ok THEN ParseError
    ELSE LET r == SkipSpace(item.rest) IN
         IF r = <<>> THEN ParseError
         ELSE CASE Head(r) = "]" -> Parsed(PyList(Append(acc, item.val)), Tail(r))
                [] Head(r) = "," -> ScanArray(SkipSpace(Tail(r)), Append(acc, item.val))
                [] OTHER -> ParseError

\* json.decoder.JSONObject, at the opening quote of a key
ScanObject(ts, acc) ==
    IF ts = <<>> \/ Head(ts) # Quote THEN ParseError
    ELSE LET key == ScanString(Tail(ts), <<>>) IN
         IF ~key.ok THEN ParseError
         ELSE LET c == SkipSpace(key.rest) IN
              IF c = <<>> \/ Head(c) # ":" THEN ParseError
              ELSE LET item == ScanValue(SkipSpace(Tail(c))) IN
                   IF ~item.ok THEN ParseError
                   ELSE LET r == SkipSpace(item.rest)
                            items == SetItem(acc, key.val.v, item.val) IN
                        IF r = <<>> THEN ParseError
                        ELSE CASE Head(r) = "}" -> Parsed(PyDict(items), Tail(r))
                               [] Head(r) = "," -> ScanObject(SkipSpace(Tail(r)), items)
                               [] OTHER -> ParseError

\* json.load(f): one value, then nothing but white space
JsonLoad(text) ==
    LET r == ScanValue(SkipSpace(text)) IN
    IF r.ok /\ SkipSpace(r.rest) = <<>> THEN Return(r.val) ELSE Raise("JSONDecodeError")

----------------------------------------------------------------------------
(* More field normalizers *)

\* str.lower(), token by token: the words the inputs spell with capitals
LowerToken(c) ==
    CASE c = "Given" -> "given"   [] c = "GIVEN" -> "given"
      [] c = "Family" -> "family" [] c = "FAMILY" -> "family"
      [] c = "First" -> "first"   [] c = "Last" -> "last"
      [] c = "Display" -> "display"
      [] c = "Name" -> "name"     [] c = "NAME" -> "name"
      [] c = "Phone" -> "phone"   [] c = "Mobile" -> "mobile"
      [] c = "Home" -> "home"     [] c = "Business" -> "business"
      [] c = "Work" -> "work"     [] c = "Cell" -> "cell"
      [] c = "Other" -> "other"   [] c = "March" -> "march"
      [] c = ".CSV" -> ".csv"     [] c = ".VCF" -> ".vcf"
      [] c = ".JSON" -> ".json"   [] c = ".TXT" -> ".txt"
      [] OTHER -> c

Lower(s) == [i \in 1..Len(s) |-> LowerToken(s[i])]

\* ContactImporter._normalize_phone_type
NormalizePhoneType(phone_type) ==
    LET pt == Lower(phone_type) IN
    IF Contains(pt, <<"mobile">>) \/ Contains(pt, <<"cell">>) THEN <<"mobile">>
    ELSE IF Contains(pt, <<"work">>) \/ Contains(pt, <<"business">>) THEN <<"work">>
    ELSE IF Contains(pt, <<"home">>) THEN <<"home">>
    ELSE <<"mobile">>

\* time.strptime's directives: [lowest value, highest value, most digits]
Directive(d) ==
    CASE d = "%Y" -> <<1, 9999, 4>>
      [] d = "%m" -> <<1, 12, 2>>
      [] d = "%d" -> <<1, 31, 2>>
      [] d = "%H" -> <<0, 23, 2>>
      [] d = "%M" -> <<0, 59, 2>>
      [] d = "%S" -> <<0, 61, 2>>

MonthNames ==
    <<"january", "february", "march", "april", "may", "june", "july",
      "august", "september", "october", "november", "december">>

RECURSIVE TextInt(_, _)
\* int(s) for a run of digits
TextInt(s, n) == IF s = <<>> THEN n ELSE TextInt(Tail(s), 10 * n + ValueOf(Head(s)))

AllDigits(s) == \A i \in 1..Len(s) : s[i] \in Digits

NoDate == [ok |-> FALSE, f |-> <<>>]

RECURSIVE MatchFormat(_, _, _)
\* _strptime: the fields of s under the format fmt, or NoDate.  f collects
\* <<directive, value>> pairs.  A numeric directive takes its longest run of
\* digits first (%Y exactly four), a blank in the format any run of blanks.
MatchFormat(fmt, s, f) ==
    IF fmt = <<>> THEN (IF s = <<>> THEN [ok |-> TRUE, f |-> f] ELSE NoDate)
    ELSE LET d == Head(fmt) IN
         CASE d = "%B" ->
                IF s # <<>> /\ \E m \in 1..12 : MonthNames[m] = LowerToken(Head(s))
                THEN MatchFormat(Tail(fmt), Tail(s),
                         Append(f, <<"%m", CHOOSE m \in 1..12 :
                                              MonthNames[m] = LowerToken(Head(s))>>))
                ELSE NoDate
           [] d \in {"%Y", "%m", "%d", "%H", "%M", "%S"} ->
                LET dir == Directive(d)
                    Try(k) ==
                        IF Len(s) >= k /\ AllDigits(SubSeq(s, 1, k))
                           /\ TextInt(SubSeq(s, 1, k), 0) \in dir[1]..dir[2]
                        THEN MatchFormat(Tail(fmt), SubSeq(s, k + 1, Len(s)),
                                 Append(f, <<d, TextInt(SubSeq(s, 1, k), 0)>>))
                        ELSE NoDate
                IN IF d = "%Y" THEN Try(4)
                   ELSE IF Try(2).ok THEN Try(2) ELSE Try(1)
           [] d = " " ->
                IF s # <<>> /\ Head(s) \in Whitespace
                THEN MatchFormat(Tail(fmt), LStrip(s), f)
                ELSE NoDate
           [] OTHER ->
                IF s # <<>> /\ Head(s) = d THEN MatchFormat(Tail(fmt), Tail(s), f)
                ELSE NoDate

Field(f, d) == f[CHOOSE i \in 1..Len(f) : f[i][1] = d][2]

IsLeap(y) == y % 4 = 0 /\ (y % 100 # 0 \/ y % 400 = 0)

DaysInMonth(y, m) ==
    IF m = 2 THEN (IF IsLeap(y) THEN 29 ELSE 28)
    ELSE IF m \in {4, 6, 9, 11} THEN 30 ELSE 31

\* '%02d' % n
Pad(n, width) == Rep(<<"0">>, width - Len(IntText(n))) \o IntText(n)

\* the date_formats list of _parse_date
DateFormats ==
    << <<"%Y", "-", "%m", "-", "%d">>,
       <<"%m", "/", "%d", "/", "%Y">>,
       <<"%d", "/", "%m", "/", "%Y">>,
       <<"%Y", "/", "%m", "/", "%d">>,
       <<"%B", " ", "%d", ",", " ", "%Y">>,
       <<"%d", " ", "%B", " ", "%Y">>,
       <<"%Y", "-", "%m", "-", "%d", " ", "%H", ":", "%M", ":", "%S">> >>

\* datetime.strptime(s, fmt).strftime('%Y-%m-%d'), or NoDate on ValueError
TryFormat(s, fmt) ==
    LET m == MatchFormat(fmt, s, <<>>) IN
    IF m.ok /\ Field(m.f, "%d") <= DaysInMonth(Field(m.f, "%Y"), Field(m.f, "%m"))
    THEN [ok |-> TRUE,
          f |-> IntText(Field(m.f, "%Y")) \o <<"-">> \o Pad(Field(m.f, "%m"), 2)
                \o <<"-">> \o Pad(Field(m.f, "%d"), 2)]
    ELSE NoDate

\* ContactImporter._parse_date, on a str or None
ParseDate(date_str) ==
    IF ~Truthy(date_str) THEN PyNone
    ELSE LET s == Strip(date_str.v)
             hits == {i \in 1..Len(DateFormats) : TryFormat(s, DateFormats[i]).ok}
         IN IF hits = {} THEN PyNone
            ELSE PyStr(TryFormat(s, DateFormats[CHOOSE i \in hits :
                                                   \A j \in hits : i <= j]).f)

----------------------------------------------------------------------------
(* Writing text files: how the input files of the model are spelled *)

RECURSIVE JoinOn(_, _)
\* d.join(pieces)
JoinOn(pieces, d) ==
    IF pieces = <<>> THEN <<>>
    ELSE IF Len(pieces) = 1 THEN pieces[1]
    ELSE pieces[1] \o <<d>> \o JoinOn(Tail(pieces), d)

RECURSIVE TextOfLines(_)
\* every line followed by its line end
TextOfLines(lines) ==
    IF lines = <<>> THEN <<>> ELSE Head(lines) \o <<Newline>> \o TextOfLines(Tail(lines))

\* a CSV file: a header row and data rows, fields separated by sep
CsvText(sep, header, rows) ==
    TextOfLines(<<JoinOn(header, sep)>> \o [i \in 1..Len(rows) |-> JoinOn(rows[i], sep)])

----------------------------------------------------------------------------
(* Reading a CSV file.  Quoting is not modelled: in the texts of the model   *)
(* no field of a data row starts with a quote.                               *)

\* s.split(d): the pieces of s between the tokens d
SplitOn(s, d) ==
    LET at == {i \in 1..Len(s) : s[i] = d}
        \* the position of the k-th d; 0 before the first, Len(s) + 1 after the last
        Pos(k) == IF k = 0 THEN 0
                  ELSE IF k > Cardinality(at) THEN Len(s) + 1
                  ELSE CHOOSE i \in at : Cardinality({j \in at : j <= i}) = k
    IN [k \in 1..(Cardinality(at) + 1) |-> SubSeq(s, Pos(k - 1) + 1, Pos(k) - 1)]

\* the lines of a text file, without their line ends
Lines(text) ==
    LET pieces == SplitOn(text, Newline) IN
    IF pieces[Len(pieces)] = <<>> THEN SubSeq(pieces, 1, Len(pieces) - 1) ELSE pieces

\* f.readline(), without the line end
ReadLine(text) == LET lines == Lines(text) IN IF lines = <<>> THEN <<>> ELSE lines[1]

\* the delimiter choice of _import_csv
SniffDelimiter(sample) ==
    IF Count(sample, ",") > Count(sample, ";") THEN "," ELSE ";"

\* csv.reader: the non-blank rows of the file, each a sequence of fields
CsvRows(text, delimiter) ==
    LET lines == Lines(text)
        rows == [i \in 1..Len(lines) |->
                    IF lines[i] = <<>> THEN <<>> ELSE SplitOn(lines[i], delimiter)]
    IN SelectSeq(rows, LAMBDA r : r # <<>>)

RECURSIVE ZipRow(_, _, _)
\* csv.DictReader.__next__: dict(zip(fieldnames, row)), a missing field None
\* (restval); fields beyond the header go under the key None, which no parser reads
ZipRow(fieldnames, row, items) ==
    IF fieldnames = <<>> THEN items
    ELSE ZipRow(Tail(fieldnames),
                IF row = <<>> THEN <<>> ELSE Tail(row),
                SetItem(items, Head(fieldnames),
                        IF row = <<>> THEN PyNone ELSE PyStr(Head(row))))

\* csv.DictReader(f, delimiter): the first row names the fields
DictReader(text, delimiter) ==
    LET rows == CsvRows(text, delimiter) IN
    IF rows = <<>> THEN <<>>
    ELSE [i \in 1..(Len(rows) - 1) |-> PyDict(ZipRow(rows[1], rows[i + 1], <<>>))]

----------------------------------------------------------------------------
(* CSV row parsers *)

Empty == PyStr(<<>>)

\* str(x) inside an f-string
Format(x) == IF x.t = "None" THEN <<"None">> ELSE x.v

\* f"{a} {b}".strip()
JoinNames(a, b) == Strip(Format(a) \o <<" ">> \o Format(b))

\* the canonical contact record
Contact(name, phones, emails, birthday, notes) ==
    PyDict(<< << <<"name">>, name >>,
              << <<"phones">>, PyList(phones) >>,
              << <<"emails">>, PyList(emails) >>,
              << <<"birthday">>, birthday >>,
              << <<"category">>, PyStr(<<"Friend">>) >>,
              << <<"lastContact">>, PyNone >>,
              << <<"notes">>, notes >> >>)

\* one entry of phones
PhoneEntry(type, number, primary) ==
    PyDict(<< << <<"type">>, PyStr(type) >>,
              << <<"number">>, PyStr(number) >>,
              << <<"primary">>, PyBool(primary) >> >>)

\* 'Phone {i} - Value', 'Phone {i} - Type', 'E-mail {i} - Value'
GoogleKey(word, i, what) == <<word, " ", DigitOf(i), " ", "-", " ", what>>

RECURSIVE GooglePhones(_, _, _)

\* a slip that marks every phone of a Google row as primary
GooglePhonesAllPrimary(row, i, phones) ==
    IF i > 5 THEN phones
    ELSE LET phone == Strip(Get(row, GoogleKey("Phone", i, "Value"), Empty).v)
             type == Get(row, GoogleKey("Phone", i, "Type"), PyStr(<<"Mobile">>))
         IN GooglePhones(row, i + 1,
                IF phone # <<>>
                THEN Append(phones, PhoneEntry(NormalizePhoneType(type.v),
                                               NormalizePhone(phone), TRUE))
                ELSE phones)

\* the phone loop of _parse_google_csv_row from index i on
GooglePhones(row, i, phones) ==
    IF i > 5 THEN phones
    ELSE LET phone == Strip(Get(row, GoogleKey("Phone", i, "Value"), Empty).v)
             type == Get(row, GoogleKey("Phone", i, "Type"), PyStr(<<"Mobile">>))
         IN GooglePhones(row, i + 1,
                IF phone # <<>>
                THEN Append(phones, PhoneEntry(NormalizePhoneType(type.v),
                                               NormalizePhone(phone),
                                               Len(phones) = 0))
                ELSE phones)

\* the values _parse_google_csv_row calls .strip() or .lower() on
GoogleReceivers(row) ==
    {Get(row, GoogleKey("Phone", i, "Value"), Empty) : i \in 1..5}
    \cup {Get(row, GoogleKey("Phone", i, "Type"), PyStr(<<"Mobile">>)) :
            i \in {j \in 1..5 :
                     /\ Get(row, GoogleKey("Phone", j, "Value"), Empty).t = "str"
                     /\ Strip(Get(row, GoogleKey("Phone", j, "Value"), Empty).v) # <<>>}}
    \cup {Get(row, GoogleKey("E-mail", i, "Value"), Empty) : i \in 1..3}

\* ContactImporter._parse_google_csv_row
ParseGoogleCsvRow(row) ==
    IF PyNone \in GoogleReceivers(row) THEN Raise("AttributeError")
    ELSE LET joined == JoinNames(Get(row, <<"Given", " ", "Name">>, Empty),
                                 Get(row, <<"Family", " ", "Name">>, Empty))
             name == IF joined = <<>> THEN Get(row, <<"Name">>, Empty) ELSE PyStr(joined)
             emails == SelectSeq(
                 [i \in 1..3 |-> PyStr(Strip(Get(row, GoogleKey("E-mail", i, "Value"), Empty).v))],
                 LAMBDA e : e.v # <<>>)
         IN Return(Contact(name, GooglePhones(row, 1, <<>>), emails,
                           ParseDate(Get(row, <<"Birthday">>, Empty)),
                           Get(row, <<"Notes">>, Empty)))

\* phone_fields of _parse_outlook_csv_row
OutlookPhoneFields ==
    << <<"Mobile", " ", "Phone">>, <<"Home", " ", "Phone">>, <<"Business", " ", "Phone">> >>

RECURSIVE OutlookPhones(_, _, _)
\* the phone loop of _parse_outlook_csv_row over the remaining fields
OutlookPhones(row, fields, phones) ==
    IF fields = <<>> THEN phones
    ELSE LET phone == Strip(Get(row, Head(fields), Empty).v) IN
         OutlookPhones(row, Tail(fields),
             IF phone # <<>>
             THEN Append(phones, PhoneEntry(NormalizePhoneType(Head(fields)),
                                            NormalizePhone(phone),
                                            Len(phones) = 0))
             ELSE phones)

\* ContactImporter._parse_outlook_csv_row
ParseOutlookCsvRow(row) ==
    IF \E i \in 1..3 : Get(row, OutlookPhoneFields[i], Empty) = PyNone
    THEN Raise("AttributeError")
    ELSE LET joined == JoinNames(Get(row, <<"First", " ", "Name">>, Empty),
                                 Get(row, <<"Last", " ", "Name">>, Empty))
             name == IF joined = <<>> THEN Get(row, <<"Display", " ", "Name">>, Empty)
                     ELSE PyStr(joined)
             email == Get(row, <<"E-mail", " ", "Address">>, PyNone)
         IN Return(Contact(name, OutlookPhones(row, OutlookPhoneFields, <<>>),
                           IF Truthy(email) THEN <<PyStr(Strip(email.v))>> ELSE <<>>,
                           ParseDate(Get(row, <<"Birthday">>, Empty)),
                           Get(row, <<"Notes">>, Empty)))

\* ContactImporter._parse_android_csv_row
ParseAndroidCsvRow(row) ==
    LET name == Get(row, <<"Display", " ", "Name">>, Empty)
        phone == Get(row, <<"Phone">>, PyNone)
        email == Get(row, <<"Email">>, PyNone)
    IN IF name = PyNone THEN Raise("AttributeError")
       ELSE Return(Contact(PyStr(Strip(name.v)),
                IF Truthy(phone)
                THEN <<PhoneEntry(<<"mobile">>, NormalizePhone(phone.v), TRUE)>>
                ELSE <<>>,
                IF Truthy(email) THEN <<PyStr(Strip(email.v))>> ELSE <<>>,
                PyNone, Empty))

\* for field in fields: if row.get(field): x = row[field].strip(); break
FirstTruthy(row, fields) ==
    LET hits == {i \in 1..Len(fields) : Truthy(Get(row, fields[i], PyNone))} IN
    IF hits = {} THEN <<>>
    ELSE Strip(Item(row, fields[CHOOSE i \in hits : \A j \in hits : i <= j]).v)

\* ContactImporter._parse_generic_csv_row
ParseGenericCsvRow(row) ==
    LET found == FirstTruthy(row, << <<"Name">>, <<"Full", " ", "Name">>,
                                     <<"Display", " ", "Name">>, <<"Contact", " ", "Name">> >>)
        first == Get(row, <<"First", " ", "Name">>, Get(row, <<"Given", " ", "Name">>, Empty))
        last == Get(row, <<"Last", " ", "Name">>, Get(row, <<"Family", " ", "Name">>, Empty))
        phone == FirstTruthy(row, << <<"Phone">>, <<"Mobile">>, <<"Phone", " ", "Number">>,
                                     <<"Mobile", " ", "Phone">> >>)
        email == FirstTruthy(row, << <<"Email">>, <<"E-mail">>, <<"Email", " ", "Address">> >>)
    IN IF found = <<>> /\ (first = PyNone \/ last = PyNone) THEN Raise("AttributeError")
       ELSE Return(Contact(
                IF found = <<>>
                THEN PyStr(Strip(Strip(first.v) \o <<" ">> \o Strip(last.v)))
                ELSE PyStr(found),
                IF phone # <<>>
                THEN <<PhoneEntry(<<"mobile">>, NormalizePhone(phone), TRUE)>>
                ELSE <<>>,
                IF email # <<>> THEN <<PyStr(email)>> ELSE <<>>,
                PyNone,
                Get(row, <<"Notes">>, Get(row, <<"Note">>, Empty))))

\* the dispatch on csv_type in the row loop of _import_csv
ParseCsvRow(row, csv_type) ==
    CASE csv_type = "google_csv" -> ParseGoogleCsvRow(row)
      [] csv_type = "outlook_csv" -> ParseOutlookCsvRow(row)
      [] csv_type = "android_csv" -> ParseAndroidCsvRow(row)
      [] OTHER -> ParseGenericCsvRow(row)

\* a slip that keeps every record a row parser built, named or not
KeepsAnyContact(contact) == Truthy(contact)

\* `if contact and contact.get('name')`
KeepsContact(contact) == Truthy(contact) /\ Truthy(Get(contact, <<"name">>, PyNone))

RECURSIVE CsvLoop(_, _, _)

\* a slip that leaves the row loop at the first row without a name
CsvLoopBreak(rows, csv_type, acc) ==
    IF rows = <<>> THEN Return(PyList(acc))
    ELSE LET contact == ParseCsvRow(Head(rows), csv_type) IN
         IF ~contact.ok THEN contact
         ELSE IF KeepsContact(contact.val)
              THEN CsvLoop(Tail(rows), csv_type, Append(acc, contact.val))
              ELSE Return(PyList(acc))

\* the row loop of _import_csv over the remaining rows
CsvLoop(rows, csv_type, acc) ==
    IF rows = <<>> THEN Return(PyList(acc))
    ELSE LET contact == ParseCsvRow(Head(rows), csv_type) IN
         IF ~contact.ok THEN contact
         ELSE CsvLoop(Tail(rows), csv_type,
                      IF KeepsContact(contact.val) THEN Append(acc, contact.val) ELSE acc)

\* ContactImporter._import_csv
ImportCsv(text, csv_type) ==
    CsvLoop(DictReader(text, SniffDelimiter(text)), csv_type, <<>>)

\* a slip that tests the Outlook columns before the Google columns
DetectCsvFormatOutlookFirst(text) ==
    LET first_line == Lower(Strip(ReadLine(text))) IN
    IF Contains(first_line, <<"first", " ", "name">>)
       /\ Contains(first_line, <<"last", " ", "name">>) THEN "outlook_csv"
    ELSE IF Contains(first_line, <<"given", " ", "name">>)
            /\ Contains(first_line, <<"family", " ", "name">>) THEN "google_csv"
    ELSE IF Contains(first_line, <<"display", " ", "name">>)
            /\ Contains(first_line, <<"phone">>) THEN "android_csv"
    ELSE "generic_csv"

\* ContactImporter._detect_csv_format
DetectCsvFormat(text) ==
    LET first_line == Lower(Strip(ReadLine(text))) IN
    IF Contains(first_line, <<"given", " ", "name">>)
       /\ Contains(first_line, <<"family", " ", "name">>) THEN "google_csv"
    ELSE IF Contains(first_line, <<"first", " ", "name">>)
            /\ Contains(first_line, <<"last", " ", "name">>) THEN "outlook_csv"
    ELSE IF Contains(first_line, <<"display", " ", "name">>)
            /\ Contains(first_line, <<"phone">>) THEN "android_csv"
    ELSE "generic_csv"

\* ContactImporter.detect_format, on the path's suffix and the file's text
DetectFormat(suffix, text) ==
    LET s == LowerToken(suffix) IN
    IF s = ".vcf" THEN Return("vcard")
    ELSE IF s = ".json" THEN Return("json")
    ELSE IF s = ".csv" THEN Return(DetectCsvFormat(text))
    ELSE Raise("ValueError")

----------------------------------------------------------------------------
(* vCard parser.  vobject.readComponents is the third-party reader: a file   *)
(* carries what it yields for the file's text.  An attribute a component     *)
(* does not have is Absent.                                                  *)

Absent == [t |-> "absent", v |-> <<>>]

\* the type of one tel entry, from its TYPE parameter
VcardPhoneType(tel) ==
    IF tel.type_param # Absent /\ Contains(tel.type_param.v, <<"WORK">>) THEN <<"work">>
    ELSE IF tel.type_param # Absent /\ Contains(tel.type_param.v, <<"HOME">>) THEN <<"home">>
    ELSE <<"mobile">>

RECURSIVE VcardPhones(_, _)
\* the tel loop of _import_vcard over the remaining entries
VcardPhones(tels, phones) ==
    IF tels = <<>> THEN phones
    ELSE VcardPhones(Tail(tels),
             Append(phones, PhoneEntry(VcardPhoneType(Head(tels)),
                                       NormalizePhone(Head(tels).value),
                                       Len(phones) = 0)))

\* the contact _import_vcard builds from one component
VcardContact(vcard) ==
    Contact(IF vcard.fn # Absent THEN vcard.fn
            ELSE IF vcard.n # Absent
                 THEN PyStr(Strip(vcard.n.given \o <<" ">> \o vcard.n.family))
                 ELSE Empty,
            VcardPhones(vcard.tel, <<>>),
            vcard.email,
            IF vcard.bday # Absent THEN ParseDate(vcard.bday) ELSE PyNone,
            IF vcard.note # Absent THEN vcard.note ELSE Empty)

\* ContactImporter._import_vcard
ImportVcard(file, has_vobject) ==
    IF ~has_vobject THEN Raise("ImportError")
    ELSE IF ~file.vcards.ok THEN file.vcards
    ELSE Return(PyList(SelectSeq(
             [i \in 1..Len(file.vcards.val) |-> VcardContact(file.vcards.val[i])],
             LAMBDA c : Truthy(Item(c, <<"name">>)))))

----------------------------------------------------------------------------
(* JSON parser, import_file and the exporter *)

\* len(x) is defined
HasLen(x) == x.t \in {"str", "list", "dict"}

\* a slip that returns the whole document, not the value under 'contacts'
ImportJsonWholeDocument(text) ==
    LET data == JsonLoad(text) IN
    IF ~data.ok THEN data
    ELSE IF data.val.t \in {"dict", "list"} THEN Return(data.val)
    ELSE Raise("ValueError")

\* ContactImporter._import_json, on the text of the file
ImportJson(text) ==
    LET data == JsonLoad(text) IN
    IF ~data.ok THEN data
    ELSE IF data.val.t = "dict" /\ HasKey(data.val, <<"contacts">>)
         THEN (IF HasLen(Item(data.val, <<"contacts">>))
               THEN Return(Item(data.val, <<"contacts">>))
               ELSE Raise("TypeError"))
    ELSE IF data.val.t = "list" THEN Return(data.val)
    ELSE Raise("ValueError")

CsvTypes == {"google_csv", "outlook_csv", "android_csv", "generic_csv"}

\* ContactImporter.import_file; a format_hint of "" is None
ImportFile(file, format_hint, has_vobject) ==
    LET detected == IF format_hint # "" THEN Return(format_hint)
                    ELSE DetectFormat(file.suffix, file.text)
    IN IF ~detected.ok THEN detected
       ELSE IF detected.val = "vcard" THEN ImportVcard(file, has_vobject)
       ELSE IF detected.val = "json" THEN ImportJson(file.text)
       ELSE IF detected.val \in CsvTypes THEN ImportCsv(file.text, detected.val)
       ELSE Raise("ValueError")

\* kinect_data of export_kinect_json
KinectData(contact_list, now) ==
    PyDict(<< << <<"version">>, PyStr(<<"1", ".", "0">>) >>,
              << <<"imported_at">>, PyStr(now) >>,
              << <<"contacts">>, contact_list >> >>)

\* f.write(chunk) on a UTF-8 text file raises UnicodeEncodeError
Unencodable(chunk) == \E i \in 1..Len(chunk) : chunk[i] = Surrogate

\* json.dump's loop `for chunk in iterable: fp.write(chunk)`: the chunks
\* that reach the file, which are those before the first that cannot be encoded
Written(chunks) ==
    LET bad == {i \in 1..Len(chunks) : Unencodable(chunks[i])} IN
    IF bad = {} THEN chunks
    ELSE SubSeq(chunks, 1, (CHOOSE i \in bad : \A j \in bad : i <= j) - 1)

\* ContactImporter.export_kinect_json: the outcome and the output file it leaves.
\* open(..., 'w') creates the file before anything is written, and closing it
\* on the way out of the with block flushes what was written.
ExportKinectJson(contact_list, now, output_dir) ==
    LET chunks == IterEncode(KinectData(contact_list, now), 0) IN
    IF output_dir = "unwritable"
    THEN [result |-> Raise("PermissionError"), file |-> [exists |-> FALSE, chunks |-> <<>>]]
    ELSE [result |-> IF Written(chunks) = chunks THEN Return(PyNone)
                     ELSE Raise("UnicodeEncodeError"),
          file |-> [exists |-> TRUE, chunks |-> Written(chunks)]]

\* the dry-run loop of main raises nothing: contacts[:5] is defined, each of
\* its items has 'name', and 'phones' and 'emails' with a len(), and print
\* can encode the name
PreviewOk(contact_list) ==
    /\ contact_list.t = "list"
    /\ \A i \in 1..Len(contact_list.v) :
          i <= 5 =>
             /\ contact_list.v[i].t = "dict"
             /\ HasKey(contact_list.v[i], <<"name">>)
             /\ Item(contact_list.v[i], <<"name">>).t = "str"
                   => ~Unencodable(Item(contact_list.v[i], <<"name">>).v)
             /\ HasKey(contact_list.v[i], <<"phones">>)
             /\ HasLen(Item(contact_list.v[i], <<"phones">>))
             /\ HasKey(contact_list.v[i], <<"emails">>)
             /\ HasLen(Item(contact_list.v[i], <<"emails">>))

----------------------------------------------------------------------------
(* Idle values of the variables a specification does not use *)

NoResult == [ok |-> FALSE, err |-> "not run"]
NoFile == [exists |-> FALSE, chunks |-> <<>>]

----------------------------------------------------------------------------
(* Input files *)

\* the sequences over S of length at most n
SeqsUpTo(S, n) == UNION {[1..k -> S] : k \in 0..n}

Str(word) == <<word>>
Ten == Rep(<<"5">>, 10)
Eleven == <<"1">> \o Rep(<<"5">>, 10)
Mail == <<"a", "@", "b">>

GivenName == <<"Given", " ", "Name">>
FamilyName == <<"Family", " ", "Name">>
FirstName == <<"First", " ", "Name">>
LastName == <<"Last", " ", "Name">>
DisplayName == <<"Display", " ", "Name">>

\* a file on disk: its suffix, its text, and what vobject reads from the text
File(suffix, text, vcards) ==
    [exists |-> TRUE, suffix |-> suffix, text |-> text, vcards |-> vcards]

MissingFile ==
    [exists |-> FALSE, suffix |-> ".csv", text |-> <<>>, vcards |-> Raise("ParseError")]

\* CSV tables: the columns, and for each column the cells a row may hold
GoogleNames ==
    << <<GivenName, {<<>>, Str("Al")}>>, <<FamilyName, {<<>>, Str("Bo")}>>,
       <<Str("Name"), {<<>>, Str("Cy"), Str(" ")}>> >>
GooglePhoneColumns ==
    << <<GivenName, {Str("Al")}>>, <<FamilyName, {<<>>}>>,
       <<GoogleKey("Phone", 1, "Value"), {<<>>, <<"5", "5", "5">>}>>,
       <<GoogleKey("Phone", 1, "Type"), {<<>>, Str("Work")}>>,
       <<GoogleKey("Phone", 2, "Value"), {<<>>, Ten}>> >>
GoogleOther ==
    << <<GivenName, {Str("Al")}>>, <<FamilyName, {Str("Bo")}>>,
       <<GoogleKey("E-mail", 1, "Value"), {<<>>, Mail}>>,
       <<Str("Birthday"), {<<"0", "3", "/", "0", "4", "/", "2", "0", "2", "0">>,
                           Str("garbage")}>>,
       <<Str("Notes"), {<<>>, <<"a", ";", ";", ";", ";", ";", "b">>}>> >>
OutlookNames ==
    << <<FirstName, {<<>>, Str("Al")}>>, <<LastName, {<<>>, Str("Bo")}>>,
       <<DisplayName, {<<>>, Str("Cy")}>> >>
OutlookPhoneColumns ==
    << <<FirstName, {Str("Al")}>>, <<LastName, {<<>>}>>,
       <<<<"Mobile", " ", "Phone">>, {<<>>, <<"5", "5", "5">>}>>,
       <<<<"Home", " ", "Phone">>, {<<>>, Ten}>>,
       <<<<"Business", " ", "Phone">>, {<<>>, Eleven}>> >>
OutlookOther ==
    << <<FirstName, {Str("Al")}>>, <<LastName, {Str("Bo")}>>,
       <<<<"E-mail", " ", "Address">>, {<<>>, Mail}>>,
       <<Str("Birthday"), {<<>>, <<"2", "0", "2", "4", "-", "0", "3", "-", "1", "5">>}>>,
       <<Str("Notes"), {<<>>, Str("hi")}>> >>
AndroidColumns ==
    << <<DisplayName, {<<>>, Str("Al"), Str(" ")}>>,
       <<Str("Phone"), {<<>>, <<"5", "5", "5">>, Str(" ")}>> >>
AndroidPhoneFirst ==
    << <<Str("Phone"), {<<>>, Ten}>>, <<DisplayName, {<<>>, Str("Al")}>>,
       <<Str("Email"), {<<>>, Mail}>> >>
GenericNames ==
    << <<Str("Name"), {<<>>, Str("Al"), Str(" ")}>>,
       <<<<"Full", " ", "Name">>, {<<>>, Str("Bo")}>>,
       <<Str("Phone"), {<<>>, <<"5", "5", "5", "-", "5">>}>> >>
GenericFirstLast ==
    << <<GivenName, {<<>>, Str("Al")}>>, <<LastName, {<<>>, Str("Bo")}>>,
       <<Str("Mobile"), {<<>>, Ten}>>, <<Str("Note"), {Str("hi")}>> >>

CsvTables ==
    {GoogleNames, GooglePhoneColumns, GoogleOther, OutlookNames, OutlookPhoneColumns,
     OutlookOther, AndroidColumns, AndroidPhoneFirst, GenericNames, GenericFirstLast}

Header(table) == [i \in 1..Len(table) |-> table[i][1]]

\* the rows a table allows: every column filled from its cells, and each
\* such row cut short by its last field
TableRows(table) ==
    LET full == {r \in [1..Len(table) -> UNION {table[i][2] : i \in 1..Len(table)}] :
                    \A i \in 1..Len(table) : r[i] \in table[i][2]}
    IN full \cup {SubSeq(r, 1, Len(table) - 1) : r \in full}

\* vobject finds no vCard in the text of a CSV or JSON file
NotVcard == Raise("ParseError")

CsvFilesOf(tables, seps, n) ==
    UNION {{File(".csv", CsvText(sep, Header(table), rows), NotVcard) :
               sep \in seps, rows \in SeqsUpTo(TableRows(table), n)} : table \in tables}

\* vCard components as vobject yields them
Tel(value, type_param) == [value |-> value, type_param |-> type_param]

TelChoices ==
    {Tel(<<"5", "5", "5">>, Absent), Tel(Ten, PyStr(Str("WORK"))),
     Tel(Eleven, PyStr(Str("HOME")))}

Vcard(fn, n, tel, email, bday, note) ==
    [fn |-> fn, n |-> n, tel |-> tel, email |-> email, bday |-> bday, note |-> note]

NChoices == {Absent, [given |-> Str("Bo"), family |-> Str("Cy")],
             [given |-> <<>>, family |-> <<>>]}

\* components with every choice of name and phones
VcardsByPhones(m) ==
    {Vcard(fn, n, tel, <<>>, Absent, Absent) :
        fn \in {Absent, Empty, PyStr(Str("Al"))}, n \in NChoices,
        tel \in SeqsUpTo(TelChoices, m)}

\* components with every choice of the other fields
VcardsByFields ==
    {Vcard(fn, Absent, <<Tel(Ten, PyStr(<<"HOME", ",", "WORK">>))>>, email, bday,
           PyStr(Str("hi"))) :
        fn \in {Empty, PyStr(Str("Al"))},
        email \in {<<>>, <<PyStr(Mail), PyStr(Mail)>>},
        bday \in {PyStr(<<"2", "0", "2", "4", "-", "0", "3", "-", "1", "5">>),
                  PyStr(Str("garbage"))}}

\* the text of a vCard file is not looked at by the model of vobject; it
\* only has to be what the other parsers see when they are forced onto it
VcardText(vcards) ==
    TextOfLines([i \in 1..Len(vcards) |-> <<"BEGIN:VCARD">>])

VcardFile(vcards) == File(".vcf", VcardText(vcards), Return(vcards))

VcardFilesOf(n) ==
    {VcardFile(<<v>>) : v \in VcardsByPhones(MaxPhones)}
    \cup {VcardFile(vs) : vs \in SeqsUpTo(VcardsByFields, n)}

\* JSON documents
Record(name) == Contact(PyStr(name), <<>>, <<>>, PyNone, Empty)
FullRecord ==
    Contact(PyStr(Str("Al")), <<PhoneEntry(Str("mobile"), <<"+", "1">> \o Ten, TRUE)>>,
            <<PyStr(Mail)>>, PyNone, Empty)
BareRecord == PyDict(<< <<Str("name"), PyStr(Str("Bo"))>> >>)

JsonItems == {FullRecord, BareRecord, Record(<<>>), Record(<<Surrogate>>), PyInt(1)}

Earlier == Str("2026-01-01T00:00:00")

Keyed(key, value) == PyDict(<< <<Str(key), value>> >>)

JsonDocsOf(n) ==
    {PyList(items) : items \in SeqsUpTo(JsonItems, n)}
    \cup {Keyed("contacts", PyList(items)) : items \in SeqsUpTo({FullRecord}, n)}
    \cup {KinectData(PyList(<<FullRecord>>), Earlier),
          Keyed("contacts", PyStr(Str("abc"))), Keyed("contacts", PyStr(<<>>)),
          Keyed("contacts", PyInt(5)), Keyed("contacts", PyNone),
          Keyed("contacts", PyDict(<<>>)), Keyed("contacts", Keyed("a", PyInt(1))),
          Keyed("people", PyList(<<FullRecord>>)), PyDict(<<>>),
          PyInt(5), PyStr(Str("abc")), PyNone, PyBool(TRUE)}

\* the text of a JSON file holding doc: what json.dump writes, with the
\* surrogate spelled as its escape
JsonText(doc) ==
    LET dumped == Flatten(IterEncode(doc, 0))
        Spell(c) == IF c = Surrogate THEN <<Backslash, SurrogateEscape>> ELSE <<c>>
    IN Flatten([i \in 1..Len(dumped) |-> Spell(dumped[i])])

JsonFilesOf(n) ==
    {File(".json", JsonText(doc), NotVcard) : doc \in JsonDocsOf(n)}
    \cup {File(".json", text, NotVcard) : text \in {<<>>, <<"[">>, <<"[", "1", ",", "]">>}}


\* the same files under other suffixes
Renamed(files, suffixes) ==
    {[f EXCEPT !.suffix = x] : f \in files, x \in suffixes}

\* the --format choices of main, "" when the option is not given
FormatChoices == {"", "vcard", "google_csv", "outlook_csv", "android_csv", "json"}

\* datetime.now().isoformat() at export time
Now == Str("2026-11-02T14:22:05")

Args(file, format, dry_run) == [file |-> file, format |-> format, dry_run |-> dry_run]

----------------------------------------------------------------------------
(* Spec: one run of main, then reading the output file back *)

\* the input files of main, with at most n rows, components or items
MainFiles(n) ==
    JsonFilesOf(n) \cup CsvFilesOf(CsvTables, {","}, n - 1)
    \cup VcardFilesOf(n - 1)
    \cup Renamed({File(".csv", CsvText(";", Header(AndroidColumns),
                                       <<<<Str("Al"), Ten, Mail>>>>), NotVcard),
                  VcardFile(<<Vcard(PyStr(Str("Al")), Absent, <<>>, <<>>, Absent, Absent)>>),
                  File(".json", JsonText(PyList(<<FullRecord>>)), NotVcard)},
                 {".csv", ".CSV", ".VCF", ".JSON", ".txt"})
    \cup {MissingFile}

Idle ==
    /\ format_type = NoResult
    /\ contacts = NoResult
    /\ output = NoFile
    /\ exit_code = -1
    /\ error = ""
    /\ reread = NoResult
    /\ phone_input = <<>>
    /\ normalized = <<>>
    /\ renormalized = <<>>

Init ==
    /\ pc = "main"
    /\ args \in {Args(file, format, dry_run) :
                    file \in MainFiles(MaxRows), format \in FormatChoices, dry_run \in BOOLEAN}
    /\ Idle

\* sys.exit(code), after printing msg
Exit(code, msg) ==
    /\ exit_code' = code
    /\ error' = msg
    /\ pc' = "exited"

\* main: `if not input_file.exists()`
CheckInput ==
    /\ pc = "main"
    /\ IF ~args.file.exists
       THEN Exit(1, "not found")
       ELSE pc' = "construct" /\ UNCHANGED <<exit_code, error>>
    /\ UNCHANGED <<args, format_type, contacts, output, reread,
                   phone_input, normalized, renormalized>>

\* main: ContactImporter(args.output_dir), whose mkdir raises when the
\* directory cannot be created
Construct ==
    /\ pc = "construct"
    /\ \E creatable \in BOOLEAN :
          IF creatable
          THEN pc' = "import" /\ UNCHANGED <<exit_code, error>>
          ELSE Exit(1, "FileNotFoundError")
    /\ UNCHANGED <<args, format_type, contacts, output, reread,
                   phone_input, normalized, renormalized>>

\* main: contacts = importer.import_file(input_file, args.format)
Import ==
    /\ pc = "import"
    /\ \E has_vobject \in BOOLEAN :
          /\ contacts' = ImportFile(args.file, args.format, has_vobject)
          /\ IF contacts'.ok
             THEN pc' = "check" /\ UNCHANGED <<exit_code, error>>
             ELSE Exit(1, contacts'.err)
    /\ UNCHANGED <<args, format_type, output, reread,
                   phone_input, normalized, renormalized>>

\* a slip that goes on to the preview or the export with no contacts
CheckContactsNoExit ==
    /\ pc = "check"
    /\ pc' = IF args.dry_run THEN "preview" ELSE "export"
    /\ UNCHANGED <<exit_code, error>>
    /\ UNCHANGED <<args, format_type, contacts, output, reread,
                   phone_input, normalized, renormalized>>

\* main: `if not contacts`, then the branch on args.dry_run
CheckContacts ==
    /\ pc = "check"
    /\ IF ~Truthy(contacts.val)
       THEN Exit(1, "No contacts found in file")
       ELSE /\ pc' = IF args.dry_run THEN "preview" ELSE "export"
            /\ UNCHANGED <<exit_code, error>>
    /\ UNCHANGED <<args, format_type, contacts, output, reread,
                   phone_input, normalized, renormalized>>

\* main: the dry-run preview; main then returns
Preview ==
    /\ pc = "preview"
    /\ IF PreviewOk(contacts.val) THEN Exit(0, "") ELSE Exit(1, "raised in preview")
    /\ UNCHANGED <<args, format_type, contacts, output, reread,
                   phone_input, normalized, renormalized>>

\* main: importer.export_kinect_json(contacts, output_file); main then returns
Export ==
    /\ pc = "export"
    /\ \E output_dir \in {"writable", "unwritable"} :
          LET done == ExportKinectJson(contacts.val, Now, output_dir) IN
          /\ output' = done.file
          /\ IF done.result.ok THEN Exit(0, "") ELSE Exit(1, done.result.err)
    /\ UNCHANGED <<args, format_type, contacts, reread,
                   phone_input, normalized, renormalized>>

\* after the run: _import_json on whatever the run left at the output path
ReadBack ==
    /\ pc = "exited"
    /\ output.exists
    /\ reread' = ImportJson(Flatten(output.chunks))
    /\ pc' = "reread"
    /\ UNCHANGED <<args, format_type, contacts, output, exit_code, error,
                   phone_input, normalized, renormalized>>

Next ==
    \/ CheckInput
    \/ Construct
    \/ Import
    \/ CheckContacts
    \/ Preview
    \/ Export
    \/ ReadBack

Spec == Init /\ [][Next]_vars

----------------------------------------------------------------------------
(* SpecImport: import_file with no format hint, on files of every format *)

\* the input files of import_file, with at most n rows, components or items
ImportFiles(n) ==
    CsvFilesOf(CsvTables, {","}, n)
    \cup CsvFilesOf({AndroidColumns, AndroidPhoneFirst}, {";"}, n)
    \cup VcardFilesOf(n)
    \cup JsonFilesOf(n)

InitImport ==
    /\ pc = "import"
    /\ args \in {Args(file, "", FALSE) : file \in ImportFiles(MaxRows)}
    /\ Idle

NextImport == Import

SpecImport == InitImport /\ [][NextImport]_vars

----------------------------------------------------------------------------
(* SpecDetect: detect_format on every suffix and header line *)

DetectColumns ==
    {GivenName, <<"GIVEN", " ", "NAME">>, FamilyName, FirstName, LastName,
     DisplayName, Str("Phone")}

\* CSV texts whose first line is any header, alone or followed by a data
\* row that spells the Google column names
DetectTexts(n) ==
    {CsvText(",", header, rows) :
        header \in SeqsUpTo(DetectColumns, n),
        rows \in {<<>>, <<<<GivenName, FamilyName>>>>}}

\* the files given to detect_format, with at most n columns
DetectFiles(n) ==
    {File(suffix, text, NotVcard) : suffix \in {".csv", ".CSV"}, text \in DetectTexts(n)}
    \cup {File(suffix, CsvText(",", header, <<>>), NotVcard) :
             suffix \in {".vcf", ".VCF", ".json", ".JSON", ".txt", ".TXT", ""},
             header \in {<<>>, <<GivenName, FamilyName>>, <<DisplayName, Str("Phone")>>}}

InitDetect ==
    /\ pc = "detect"
    /\ args \in {Args(file, "", FALSE) : file \in DetectFiles(MaxCols)}
    /\ Idle

\* importer.detect_format(file_path)
Detect ==
    /\ pc = "detect"
    /\ format_type' = DetectFormat(args.file.suffix, args.file.text)
    /\ pc' = "detected"
    /\ UNCHANGED <<args, contacts, output, exit_code, error, reread,
                   phone_input, normalized, renormalized>>

NextDetect == Detect

SpecDetect == InitDetect /\ [][NextDetect]_vars

----------------------------------------------------------------------------
(* SpecPhone: _normalize_phone applied once and then to its own result *)

PhoneAlphabet == {"1", "5", "+", "-"}

\* phone fragments of at most two characters
PhoneEnds == SeqsUpTo(PhoneAlphabet, 2)

\* phone numbers with a run of at most n digits in the middle
PhoneInputs(n) ==
    {l \o Rep(<<"5">>, k) \o r : l \in PhoneEnds, k \in 0..n, r \in PhoneEnds}

InitPhone ==
    /\ pc = "normalize"
    /\ phone_input \in PhoneInputs(MaxDigits)
    /\ normalized = <<>>
    /\ renormalized = <<>>
    /\ args = Args(MissingFile, "", FALSE)
    /\ format_type = NoResult
    /\ contacts = NoResult
    /\ output = NoFile
    /\ exit_code = -1
    /\ error = ""
    /\ reread = NoResult

\* self._normalize_phone(phone)
Normalize ==
    /\ pc = "normalize"
    /\ normalized' = NormalizePhone(phone_input)
    /\ pc' = "renormalize"
    /\ UNCHANGED <<args, format_type, contacts, output, exit_code, error, reread,
                   phone_input, renormalized>>

\* self._normalize_phone on the result of the first call
Renormalize ==
    /\ pc = "renormalize"
    /\ renormalized' = NormalizePhone(normalized)
    /\ pc' = "normalized"
    /\ UNCHANGED <<args, format_type, contacts, output, exit_code, error, reread,
                   phone_input, normalized>>

NextPhone == Normalize \/ Renormalize

SpecPhone == InitPhone /\ [][NextPhone]_vars

----------------------------------------------------------------------------
(* Claims about main *)

\* main has returned or called sys.exit
Terminated == pc \in {"exited", "reread"}

\* the positions at which a step of main is enabled
MainSteps == {"main", "construct", "import", "check", "preview", "export"}

\* the output path holds the whole envelope of contact_list
HoldsEnvelope(file, contact_list) ==
    /\ file.exists
    /\ JsonLoad(Flatten(file.chunks)) = Return(KinectData(contact_list, Now))

\* the run wrote the output file and nothing failed
SuccessfulWrite ==
    /\ ~args.dry_run
    /\ contacts.ok
    /\ HoldsEnvelope(output, contacts.val)
    /\ error = ""

\* the run previewed at least one contact and nothing failed
SuccessfulDryRun ==
    /\ args.dry_run
    /\ contacts.ok
    /\ Truthy(contacts.val)
    /\ output = NoFile
    /\ error = ""

\* C1: every run of main ends with an exit code: a run that has not ended
\* stands at a step of main, and a run that has ended has exit code 0 or 1.
\* The code is 0 exactly when the run ended in a successful write of the
\* output file or in a successful dry run with at least one contact, and
\* non-zero when the input file does not exist, the parser returned no
\* contacts, or any error was raised.
C1_ExitCode ==
    /\ ~Terminated => exit_code = -1 /\ pc \in MainSteps
    /\ Terminated =>
          /\ exit_code \in {0, 1}
          /\ exit_code = 0 <=> (SuccessfulWrite \/ SuccessfulDryRun)
          /\ ~args.file.exists => exit_code # 0
          /\ contacts.ok /\ ~Truthy(contacts.val) => exit_code # 0
          /\ error # "" => exit_code # 0

\* C1 witness: a run on a CSV file that wrote its output file and exited 0
C1_Witness ==
    /\ Terminated
    /\ exit_code = 0
    /\ SuccessfulWrite
    /\ LowerToken(args.file.suffix) = ".csv"
    /\ Len(contacts.val.v) = 1

\* C2: when the run has ended, the output path either holds a complete
\* export envelope or no output file was created: no failure, not even one
\* inside export_kinect_json after the file was opened, leaves a partial or
\* empty file behind.
C2_CompleteOrNone ==
    Terminated => (output = NoFile \/ HoldsEnvelope(output, contacts.val))

----------------------------------------------------------------------------
(* Claims about import_file *)

\* the format import_file works with
FormatUsed ==
    IF args.format # "" THEN Return(args.format)
    ELSE DetectFormat(args.file.suffix, args.file.text)

\* import_file has run: it returned a value or raised
ImportDone == contacts # NoResult

\* import_file has returned a value
Imported == ImportDone /\ contacts.ok

\* C8: the JSON parser succeeds only when the document is a top-level
\* sequence of records or an object whose 'contacts' key holds a sequence of
\* records; for any other shape it fails with the invalid-format error and
\* returns no contacts.
C8_OnlySequences ==
    (ImportDone /\ FormatUsed = Return("json") /\ JsonLoad(args.file.text).ok) =>
        LET data == JsonLoad(args.file.text).val
            accepted ==
                \/ data.t = "list"
                \/ /\ data.t = "dict"
                   /\ HasKey(data, <<"contacts">>)
                   /\ Item(data, <<"contacts">>).t = "list"
        IN /\ contacts.ok => accepted
           /\ ~accepted => contacts = Raise("ValueError")

\* record is a record whose name is a non-empty string
HasName(record) ==
    /\ record.t = "dict"
    /\ Get(record, <<"name">>, PyNone).t = "str"
    /\ Get(record, <<"name">>, PyNone).v # <<>>

\* x is a sequence of records that all have a non-empty name
AllNamed(x) == x.t = "list" /\ \A i \in 1..Len(x.v) : HasName(x.v[i])

\* C3 as stated: for every input format, json included, every record in the
\* sequence import_file returns has a non-empty name.
C3_EveryFormatNamed == Imported => AllNamed(contacts.val)

\* C3: for the vcard, google_csv, outlook_csv, android_csv and generic_csv
\* formats, every record in the sequence import_file returns has a non-empty
\* name; the json format returns the records of the document unchecked.
C3_ParsedFormatsNamed ==
    (Imported /\ FormatUsed # Return("json")) => AllNamed(contacts.val)

\* C3 witness: a vCard import that dropped a component without a name and
\* kept one with a name
C3_Witness ==
    /\ Imported
    /\ FormatUsed = Return("vcard")
    /\ Len(args.file.vcards.val) = 2
    /\ Len(contacts.val.v) = 1

\* the rows csv.DictReader yields for the input file
RowsRead == DictReader(args.file.text, SniffDelimiter(args.file.text))

\* what the row parser of the format used makes of each row read
RowsBuilt ==
    LET rows == RowsRead
        csv_type == FormatUsed.val
    IN [i \in 1..Len(rows) |-> ParseCsvRow(rows[i], csv_type)]

\* C9: for a CSV import of any of the four variants, the returned sequence is
\* exactly the sub-sequence, in row order, of the records built from the
\* rows whose name is non-empty: a row with an empty name is skipped without
\* ending the import and without changing the records before or after it.
\* The import ends without a result only when a row parser raises.
C9_NamedRowsInOrder ==
    (ImportDone /\ FormatUsed.ok /\ FormatUsed.val \in CsvTypes) =>
        LET built == RowsBuilt IN
        IF \A i \in 1..Len(built) : built[i].ok
        THEN contacts =
                Return(PyList(SelectSeq([i \in 1..Len(built) |-> built[i].val],
                                        HasName)))
        ELSE ~contacts.ok

\* C9 witness: a CSV import whose first row had no name and whose second row
\* became the only record
C9_Witness ==
    /\ Imported
    /\ FormatUsed.val \in CsvTypes
    /\ Len(RowsRead) = 2
    /\ RowsBuilt[1].ok /\ ~HasName(RowsBuilt[1].val)
    /\ contacts.val.v = <<RowsBuilt[2].val>>

\* the phones of a record
PhonesOf(record) == Item(record, <<"phones">>).v

\* C10: in every record built by the vCard parser or a CSV row parser, the
\* first phone is the primary one and no later phone is: at most one entry
\* has primary = true, and it is the entry at index 0.
C10_FirstPhonePrimary ==
    (Imported /\ FormatUsed # Return("json")) =>
        \A i \in 1..Len(contacts.val.v) :
            \A j \in 1..Len(PhonesOf(contacts.val.v[i])) :
                Item(PhonesOf(contacts.val.v[i])[j], <<"primary">>) = PyBool(j = 1)

\* C10 witness: a Google CSV import that built a record with two phones
C10_Witness ==
    /\ Imported
    /\ FormatUsed = Return("google_csv")
    /\ \E i \in 1..Len(contacts.val.v) : Len(PhonesOf(contacts.val.v[i])) = 2

----------------------------------------------------------------------------
(* Claims about detect_format *)

\* the first line of the file, lower-cased
FirstLineLower ==
    LET ends == {i \in 1..Len(args.file.text) : args.file.text[i] = Newline}
        stop == IF ends = {} THEN Len(args.file.text) + 1
                ELSE CHOOSE i \in ends : \A j \in ends : i <= j
    IN Lower(SubSeq(args.file.text, 1, stop - 1))

\* the CSV rules in priority order: the tag and the two column names
CsvRules ==
    << <<"google_csv", <<"given", " ", "name">>, <<"family", " ", "name">> >>,
       <<"outlook_csv", <<"first", " ", "name">>, <<"last", " ", "name">> >>,
       <<"android_csv", <<"display", " ", "name">>, <<"phone">> >> >>

\* the rules the first line matches
RulesMatched ==
    {r \in 1..Len(CsvRules) :
        Contains(FirstLineLower, CsvRules[r][2]) /\ Contains(FirstLineLower, CsvRules[r][3])}

\* C4: detect_format returns vcard for .vcf and json for .json, compared
\* without regard to case, fails for every suffix other than .csv, .vcf and
\* .json, and for .csv gives the tag of the first rule in the order google,
\* outlook, android that the lower-cased first line matches, generic_csv
\* when it matches none.
C4_DetectFormat ==
    pc = "detected" =>
        LET suffix == LowerToken(args.file.suffix) IN
        /\ suffix = ".vcf" => format_type = Return("vcard")
        /\ suffix = ".json" => format_type = Return("json")
        /\ suffix \notin {".csv", ".vcf", ".json"} => format_type = Raise("ValueError")
        /\ suffix = ".csv" =>
              format_type =
                  Return(IF RulesMatched = {} THEN "generic_csv"
                         ELSE CsvRules[CHOOSE r \in RulesMatched :
                                          \A q \in RulesMatched : r <= q][1])

\* C4 witness: an upper-case .CSV file whose header matches the Google
\* rule and the Outlook rule was tagged google_csv
C4_Witness ==
    /\ pc = "detected"
    /\ args.file.suffix = ".CSV"
    /\ {1, 2} \subseteq RulesMatched
    /\ format_type = Return("google_csv")

----------------------------------------------------------------------------
(* Claims about _normalize_phone *)

\* C5: phone normalization is idempotent: _normalize_phone applied to its
\* own result returns that result, also when the result was left as it was.
C5_Idempotent == pc = "normalized" => renormalized = normalized

\* C5 witness: a 10-digit number that got +1 was normalized a second time
C5_Witness ==
    /\ pc = "normalized"
    /\ Len(phone_input) = 10
    /\ \A i \in 1..Len(phone_input) : phone_input[i] \in Digits
    /\ normalized = <<"+", "1">> \o phone_input

\* the characters of the input that are digits or '+'
DigitsAndPlus == SelectSeq(phone_input, LAMBDA c : c \in Digits \cup {"+"})

\* C6 as stated: the result consists of digits only, with a '+' allowed
\* solely as the first character.
C6_PlusOnlyLeading ==
    pc # "normalize" => \A i \in 2..Len(normalized) : normalized[i] \in Digits

\* C6: _normalize_phone strips every character except digits and '+',
\* wherever the '+' stands; then, when what is left is non-empty and does not
\* start with '+', it prepends '+' if that is 11 characters starting with
\* '1', prepends '+1' if it is 10 characters, and leaves it unchanged
\* otherwise; empty input yields empty output.
C6_KeepsEveryPlus ==
    pc # "normalize" =>
        LET n == DigitsAndPlus IN
        /\ (n = <<>> \/ (n # <<>> /\ n[1] = "+")) => normalized = n
        /\ (n # <<>> /\ n[1] # "+") =>
              /\ (Len(n) = 11 /\ n[1] = "1") => normalized = <<"+">> \o n
              /\ Len(n) = 10 => normalized = <<"+", "1">> \o n
              /\ (Len(n) # 10 /\ ~(Len(n) = 11 /\ n[1] = "1")) => normalized = n

\* C6 witness: a number with a '+' inside, 10 characters with it, got +1
C6_Witness ==
    /\ pc # "normalize"
    /\ Len(DigitsAndPlus) = 10
    /\ \E i \in 2..10 : DigitsAndPlus[i] = "+"
    /\ normalized = <<"+", "1">> \o DigitsAndPlus

====
